---- MODULE Spec2Model ----
(***************************************************************************)
(* Model of the Snowflake-style id generator (generateId, waitNextMillis)  *)
(* and of the Base62 codec (encodeBase62, decodeBase62) of the URL         *)
(* shortener.                                                              *)
(*                                                                         *)
(* The generator is module-level state (sequence, lastTimestamp) mutated   *)
(* by the synchronous function generateId().  Several callers share it.    *)
(* JavaScript runs a synchronous function to completion, so a call is one  *)
(* step, except where it spins in waitNextMillis(): there the clock (the   *)
(* environment) changes while the call is in progress, so the spin is a    *)
(* position of the caller and each loop iteration is a step.               *)
(*                                                                         *)
(* `clock' is the reading Date.now() - EPOCH.  Strings are sequences of    *)
(* one-character strings.                                                  *)
(***************************************************************************)
EXTENDS Integers, Sequences, FiniteSets, TLC

\* ---------------------------------------------------------------- bounds
\* Clock readings (Date.now() - EPOCH) range over -ClockBefore..MaxClock:
\* the system clock may stand before the epoch.
ClockBefore == 1
MaxClock == 1
MinClock == 0 - ClockBefore
\* Width of the sequence field in the model.  The source uses 12 bits; the
\* model keeps every formula in terms of SEQUENCE_BITS / MAX_SEQUENCE and
\* scales the width so that sequence exhaustion is reached.
SeqBits == 2
\* Numbers 0..MaxNum are encoded; strings of up to MaxLen characters decoded.
MaxNum == 130
MaxLen == 3
\* Host names of up to MaxHost characters are hashed.
MaxHost == 6
\* Date.now() of the rate limiter and the circuit breaker ranges over 0..MaxNow.
MaxNow == 4
\* The windows and limits of the rate limiters and the reset timeout of the
\* circuit breaker.  The source uses 60000 ms, 50, 1000 and 30000 ms; the
\* model scales them so that a window fills and expires and a circuit reopens.
WindowMs == 2
ShortenMaxRequests == 2
RedirectMaxRequests == 3
ResetTimeout == 1

\* ------------------------------------------------------------- bit helpers
RECURSIVE Pow2(_)
Pow2(k) == IF k = 0 THEN 1 ELSE 2 * Pow2(k - 1)

\* x << k on BigInt
Shl(x, k) == x * Pow2(k)

\* x >> k on BigInt (arithmetic shift: floor division)
Shr(x, k) == x \div Pow2(k)

\* x & y, two's complement of unbounded width (BigInt / int32 semantics)
RECURSIVE BitAnd(_, _)
BitAnd(x, y) ==
    IF x = 0 \/ y = 0 THEN 0
    ELSE IF x = -1 THEN y
    ELSE IF y = -1 THEN x
    ELSE 2 * BitAnd(x \div 2, y \div 2) + (IF x % 2 = 1 /\ y % 2 = 1 THEN 1 ELSE 0)

\* x | y, two's complement of unbounded width
RECURSIVE BitOr(_, _)
BitOr(x, y) ==
    IF x = 0 THEN y
    ELSE IF y = 0 THEN x
    ELSE IF x = -1 \/ y = -1 THEN -1
    ELSE 2 * BitOr(x \div 2, y \div 2) + (IF x % 2 = 1 \/ y % 2 = 1 THEN 1 ELSE 0)

\* ------------------------------------------------------ generator constants
MACHINE_ID_BITS == 10
SEQUENCE_BITS == SeqBits
MAX_MACHINE_ID == Shl(1, MACHINE_ID_BITS) - 1
MAX_SEQUENCE == Shl(1, SEQUENCE_BITS) - 1
\* Width of the timestamp mask of parseId.  The source masks with
\* 0x1FFFFFFFFFF (41 bits); the model scales the width with the clock range.
TsBits == 1
TIMESTAMP_MASK == Shl(1, TsBits) - 1

\* parseInt() of a string without a leading number; no machine id is negative
NaN == 0 - 1

Callers == {"c1", "c2"}
NoCaller == "none"
MachineIds == {5, MAX_MACHINE_ID}

\* const MAX_RETRIES = 3 of POST /shorten
MAX_RETRIES == 3

\* the limiters that createRateLimiter made, and the clients
Limiters == {"shorten", "redirect"}
IPs == {"ip1", "ip2"}
windowMs(l) == WindowMs
maxRequests(l) == IF l = "shorten" THEN ShortenMaxRequests ELSE RedirectMaxRequests
\* record.count is not counted beyond MaxCount
MaxCount == RedirectMaxRequests + 2

\* options of dbCircuitBreaker and redisCircuitBreaker
failureThreshold == 5
successThreshold == 2
resetTimeout == ResetTimeout
\* this.lastFailureTime = null
Null == 0 - 1

\* short codes that are requested, and the rows of the table urls
ShortCodes == {<<"a">>, <<"b">>}
Stored == {<<"a">>}
Row(code) == [url |-> <<"u">> \o code, id |-> 7]
\* error.code of what a Redis call throws; "OTHER" is any other code or none
ErrorCodes == {"ECONNREFUSED", "NR_CLOSED", "OTHER"}

VARIABLES
    clock,          \* Date.now() - EPOCH, the current reading
    sequence,       \* module variable `sequence`
    lastTimestamp,  \* module variable `lastTimestamp`
    machineId,      \* module constant `machineId`
    frame,          \* per caller: the activation of waitNextMillis, if any
    log,            \* ids returned so far, in order of return
    outcome,        \* what the last step of a call did
    served,         \* callers that have received an id
    num,            \* codec: the integer given to encodeBase62
    str,            \* codec: the string returned by encodeBase62 or given to decodeBase62
    res,            \* codec: what decodeBase62 returned or threw
    op,             \* codec: position of the codec scenario
    envMachineId,   \* startup: process.env.MACHINE_ID
    hostname,       \* startup: os.hostname()
    startup,        \* startup: "pending", "running" or "aborted"
    req,            \* POST /shorten: per caller, the position of its request
    inserts,        \* POST /shorten: the ids given to INSERT, in order
    now,            \* Date.now() as the rate limiter and the circuit breaker read it
    rateLimitStore, \* rate limiter: the Map from IP to its record
    rlResp,         \* rate limiter: what the last call of a limiter did
    rlPassed,       \* rate limiter: requests passed on, per limiter and IP, in the IP's window
    rlRecent,       \* rate limiter: when the requests passed on in the last windowMs ms arrived
    cbState,        \* circuit breaker: this.state
    failureCount,   \* circuit breaker: this.failureCount
    successCount,   \* circuit breaker: this.successCount
    lastFailureTime,\* circuit breaker: this.lastFailureTime
    pending,        \* circuit breaker: per caller, the execute() call awaiting fn()
    cbResp,         \* circuit breaker: what the last step of execute() did
    streak,         \* circuit breaker: executions failed since the last one that succeeded
    hoSucc,         \* circuit breaker: executions succeeded since HALF_OPEN was entered
    hoCalls,        \* circuit breaker: fn invocations started in HALF_OPEN since it was entered
    isConnected,    \* redis: the flag behind isConnected() and setConnected()
    connectSettled, \* redis: redisClient.connect() has resolved or rejected
    cache,          \* redis: per short code, the value stored under its key, if any
    cacheRes,       \* cache service: what the last call of a cache function did
    rd,             \* GET /:shortCode: per caller, the position of its request
    clicks          \* database: click_count of the row of each short code

genVars == <<clock, sequence, lastTimestamp, machineId, frame, log, outcome, served>>

codecVars == <<num, str, res, op>>

startVars == <<envMachineId, hostname, startup>>

shortenVars == <<req, inserts>>

rateVars == <<rateLimitStore, rlResp, rlPassed, rlRecent>>

cbVars == <<cbState, failureCount, successCount, lastFailureTime, pending, cbResp,
            streak, hoSucc, hoCalls>>

cacheVars == <<isConnected, connectSettled, cache, cacheRes>>

redirectVars == <<rd, clicks>>

vars == <<clock, sequence, lastTimestamp, machineId, frame, log, outcome, served,
          num, str, res, op, envMachineId, hostname, startup,
          req, inserts, now, rateLimitStore, rlResp, rlPassed, rlRecent,
          cbState, failureCount, successCount, lastFailureTime, pending, cbResp,
          streak, hoSucc, hoCalls,
          isConnected, connectSettled, cache, cacheRes, rd, clicks>>

\* what the actions of one component leave alone
middlewareVars == <<now, rateVars, cbVars, cacheVars, redirectVars>>

nonGenVars == <<codecVars, startVars, shortenVars, middlewareVars>>

nonCodecVars == <<genVars, startVars, shortenVars, middlewareVars>>

nonShortenVars == <<codecVars, startVars, middlewareVars>>

NoFrame == [active |-> FALSE, lastTimestamp |-> 0]

NoRes == [kind |-> "none"]

CodecIdle ==
    /\ num = 0
    /\ str = <<>>
    /\ res = NoRes
    /\ op = "idle"

\* the module is loaded: MACHINE_ID and the host name have been read
StartIdle ==
    /\ envMachineId = [set |-> FALSE, value |-> <<>>]
    /\ hostname = <<>>
    /\ startup = "running"

NoReq == [pc |-> "idle", retries |-> 0, history |-> <<>>, id |-> 0, hasId |-> FALSE,
          shortCode |-> <<>>, error |-> "none"]

\* no request to POST /shorten has arrived
ShortenIdle ==
    /\ req = [c \in Callers |-> NoReq]
    /\ inserts = <<>>

NoRecord == [present |-> FALSE, count |-> 0, resetTime |-> 0]

NoRlResp == [limiter |-> "none", ip |-> "none", status |-> 0, retryAfter |-> Null,
             remaining |-> Null, next |-> FALSE, passedBefore |-> 0, countBefore |-> 0]

NoEntry == [present |-> FALSE, url |-> <<>>, id |-> 0]

NoCacheRes == [fn |-> "none", code |-> <<>>, called |-> FALSE, result |-> "none",
               error |-> "none"]

\* redisClient.connect() is under way, nothing is cached
CacheIdle ==
    /\ isConnected = FALSE
    /\ connectSettled = FALSE
    /\ cache = [k \in ShortCodes |-> NoEntry]
    /\ cacheRes = NoCacheRes

NoRd == [pc |-> "idle", code |-> <<>>, hit |-> FALSE, resolved |-> FALSE,
         url |-> <<>>, id |-> 0, selects |-> 0, status |-> 0, location |-> <<>>]

\* no request to GET /:shortCode has arrived
RedirectIdle ==
    /\ rd = [c \in Callers |-> NoRd]
    /\ clicks = [k \in Stored |-> 0]

NoPending == [active |-> FALSE, fallback |-> FALSE]

NoCbResp == [caller |-> NoCaller, kind |-> "none", called |-> FALSE]

\* no request has reached a limiter, the circuit breaker is as constructed
MiddlewareIdle ==
    /\ now = 0
    /\ rateLimitStore = [ip \in IPs |-> NoRecord]
    /\ rlResp = NoRlResp
    /\ rlPassed = [l \in Limiters |-> [ip \in IPs |-> 0]]
    /\ rlRecent = [l \in Limiters |-> [ip \in IPs |-> <<>>]]
    /\ cbState = "CLOSED"
    /\ failureCount = 0
    /\ successCount = 0
    /\ lastFailureTime = Null
    /\ pending = [c \in Callers |-> NoPending]
    /\ cbResp = NoCbResp
    /\ streak = 0
    /\ hoSucc = 0
    /\ hoCalls = 0
    /\ CacheIdle
    /\ RedirectIdle

\* The generator of a process that started with a machine id in
\* 0..MAX_MACHINE_ID; StartupSpec covers what getMachineId() yields.
Init ==
    /\ CodecIdle
    /\ StartIdle
    /\ ShortenIdle
    /\ MiddlewareIdle
    /\ clock \in MinClock..MaxClock
    /\ sequence = 0
    /\ lastTimestamp = -1
    /\ machineId \in MachineIds
    /\ frame = [c \in Callers |-> NoFrame]
    /\ log = <<>>
    /\ outcome = [caller |-> NoCaller, kind |-> "none", value |-> 0, waited |-> FALSE]
    /\ served = {}

\* the machine id or-ed in without its shift
ComposeIdNoShift(timestamp, mid, seq) ==
    BitOr(BitOr(Shl(timestamp, MACHINE_ID_BITS + SEQUENCE_BITS), mid), seq)

\* (timestamp << 22) | (machineId << 12) | sequence
ComposeId(timestamp, mid, seq) ==
    BitOr(BitOr(Shl(timestamp, MACHINE_ID_BITS + SEQUENCE_BITS),
                Shl(mid, SEQUENCE_BITS)),
          seq)

\* the check for a clock that moved backward, left out
ClockMovedBackwardNever(timestamp, last) == FALSE

\* if (timestamp < lastTimestamp)
ClockMovedBackward(timestamp, last) == timestamp < last

\* the increment without its mask
NextSequenceUnmasked(seq) == seq + 1

\* sequence = (sequence + 1) & MAX_SEQUENCE
NextSequence(seq) == BitAnd(seq + 1, MAX_SEQUENCE)

\* else { sequence = 0 }: a new millisecond
FreshSequence(seq) == 0

\* the wrap of the sequence to 0, not noticed
SequenceOverflowIgnored(seq) == FALSE

\* if (sequence === 0) after the increment
SequenceOverflow(seq) == seq = 0

\* the loop of waitNextMillis with a reading that is never taken again
StillWaitingStale(timestamp, last) == TRUE

\* while (timestamp <= lastTimestamp) in waitNextMillis
StillWaiting(timestamp, last) == timestamp <= last

\* a wait that yields to the event loop: other calls start during the spin
CanEnterYielding(c) == TRUE

\* A call can start only when no other call is on the stack: waitNextMillis
\* is a synchronous busy wait that never yields to the event loop.
CanEnter(c) == \A d \in Callers : ~frame[d].active

\* lastTimestamp assigned before the check for a clock that moved backward
ThrowClockSkewDirty(c, timestamp) ==
    /\ outcome' = [caller |-> c, kind |-> "skew",
                   value |-> lastTimestamp - timestamp, waited |-> FALSE]
    /\ lastTimestamp' = timestamp
    /\ UNCHANGED <<sequence, frame, log, served>>

\* throw new Error(`Clock moved backward. Refusing to generate ID for ${skew}ms`)
ThrowClockSkew(c, timestamp) ==
    /\ outcome' = [caller |-> c, kind |-> "skew",
                   value |-> lastTimestamp - timestamp, waited |-> FALSE]
    /\ UNCHANGED <<sequence, lastTimestamp, frame, log, served>>

\* the id composed before sequence is assigned
ReturnIdStale(c, timestamp, seq, waited) ==
    LET id == ComposeId(timestamp, machineId, sequence) IN
    /\ sequence' = seq
    /\ lastTimestamp' = timestamp
    /\ log' = Append(log, [timestamp |-> timestamp, sequence |-> seq, id |-> id])
    /\ outcome' = [caller |-> c, kind |-> "id", value |-> id, waited |-> waited]
    /\ served' = served \cup {c}
    /\ frame' = [frame EXCEPT ![c] = NoFrame]

\* BigInt(machineId) of a machineId that is NaN throws a RangeError, after
\* sequence and lastTimestamp have been assigned
ThrowRangeError(c, timestamp, seq, waited) ==
    /\ sequence' = seq
    /\ lastTimestamp' = timestamp
    /\ outcome' = [caller |-> c, kind |-> "rangeError", value |-> 0, waited |-> waited]
    /\ frame' = [frame EXCEPT ![c] = NoFrame]
    /\ UNCHANGED <<log, served>>

\* lastTimestamp = timestamp; const id = ...; return id
ReturnId(c, timestamp, seq, waited) ==
    IF machineId = NaN
    THEN ThrowRangeError(c, timestamp, seq, waited)
    ELSE LET id == ComposeId(timestamp, machineId, seq) IN
         /\ sequence' = seq
         /\ lastTimestamp' = timestamp
         /\ log' = Append(log, [timestamp |-> timestamp, sequence |-> seq, id |-> id])
         /\ outcome' = [caller |-> c, kind |-> "id", value |-> id, waited |-> waited]
         /\ served' = served \cup {c}
         /\ frame' = [frame EXCEPT ![c] = NoFrame]

\* timestamp = waitNextMillis(lastTimestamp): the call starts to spin
EnterWait(c) ==
    /\ sequence' = 0
    /\ frame' = [frame EXCEPT ![c] = [active |-> TRUE, lastTimestamp |-> lastTimestamp]]
    /\ outcome' = [caller |-> c, kind |-> "spin", value |-> 0, waited |-> TRUE]
    /\ UNCHANGED <<lastTimestamp, log, served>>

\* the body of generateId(), as a caller runs it
generateIdCall(c) ==
    /\ CanEnter(c)
    /\ ~frame[c].active
    /\ clock < MaxClock
    /\ LET timestamp == clock IN
         IF ClockMovedBackward(timestamp, lastTimestamp)
         THEN ThrowClockSkew(c, timestamp)
         ELSE IF timestamp = lastTimestamp
              THEN LET seq == NextSequence(sequence) IN
                     IF SequenceOverflow(seq)
                     THEN EnterWait(c)
                     ELSE ReturnId(c, timestamp, seq, FALSE)
              ELSE ReturnId(c, timestamp, FreshSequence(sequence), FALSE)
    /\ UNCHANGED <<clock, machineId>>

generateId(c) ==
    /\ generateIdCall(c)
    /\ UNCHANGED nonGenVars

\* a loop that tests each reading for a clock that moved backward
waitNextMillisChecked(c) ==
    /\ frame[c].active
    /\ LET timestamp == clock IN
         IF ClockMovedBackward(timestamp, frame[c].lastTimestamp)
         THEN /\ outcome' = [caller |-> c, kind |-> "skew",
                             value |-> frame[c].lastTimestamp - timestamp,
                             waited |-> TRUE]
              /\ frame' = [frame EXCEPT ![c] = NoFrame]
              /\ UNCHANGED <<sequence, lastTimestamp, log, served>>
         ELSE IF StillWaiting(timestamp, frame[c].lastTimestamp)
              THEN UNCHANGED <<sequence, lastTimestamp, frame, log, outcome, served>>
              ELSE ReturnId(c, timestamp, 0, TRUE)
    /\ UNCHANGED <<clock, machineId>>

\* one reading of the clock in the loop of waitNextMillis
waitNextMillisCall(c) ==
    /\ frame[c].active
    /\ LET timestamp == clock IN
         IF StillWaiting(timestamp, frame[c].lastTimestamp)
         THEN UNCHANGED <<sequence, lastTimestamp, frame, log, outcome, served>>
         ELSE ReturnId(c, timestamp, 0, TRUE)
    /\ UNCHANGED <<clock, machineId>>

waitNextMillis(c) ==
    /\ waitNextMillisCall(c)
    /\ UNCHANGED nonGenVars

\* the spin ends: the reading is past the argument of waitNextMillis
WaitExit(c) ==
    /\ waitNextMillis(c)
    /\ ~StillWaiting(clock, frame[c].lastTimestamp)

ClockAdvance ==
    /\ \E t \in (clock + 1)..MaxClock : clock' = t
    /\ UNCHANGED <<sequence, lastTimestamp, machineId, frame, log, outcome, served>>
    /\ UNCHANGED <<codecVars, startVars, middlewareVars>>
    /\ UNCHANGED shortenVars

ClockRegress ==
    /\ \E t \in MinClock..(clock - 1) : clock' = t
    /\ UNCHANGED <<sequence, lastTimestamp, machineId, frame, log, outcome, served>>
    /\ UNCHANGED <<codecVars, startVars, middlewareVars>>
    /\ UNCHANGED shortenVars

Next ==
    \/ \E c \in Callers : generateId(c)
    \/ \E c \in Callers : waitNextMillis(c)
    \/ ClockAdvance
    \/ ClockRegress

Spec == Init /\ [][Next]_vars

\* The clock eventually reads past the timestamp a spinning call waits for,
\* and the spin, which reads the clock in every iteration, sees such a reading.
ClockPast ==
    /\ ClockAdvance
    /\ \E c \in Callers : frame[c].active /\ clock' > frame[c].lastTimestamp

LiveSpec ==
    /\ Init
    /\ [][Next]_vars
    /\ WF_vars(ClockPast)
    /\ \A c \in Callers : SF_vars(WaitExit(c))

\* ------------------------------------------------------- generator claims

\* C1: any two identifiers returned by successful generateId() calls of one
\* generator are distinct, whatever the clock did between the calls.
C1_Unique ==
    \A i, j \in 1..Len(log) : i # j => log[i].id # log[j].id

C1_Witness ==
    /\ Len(log) >= 3
    /\ \E i \in 1..(Len(log) - 1) : log[i].timestamp = log[i + 1].timestamp
    /\ \E i \in 1..(Len(log) - 1) : log[i].timestamp # log[i + 1].timestamp
    /\ clock < lastTimestamp
    /\ outcome.kind = "skew"

\* C2: with several callers interleaved on the shared state no two calls
\* return the same (timestamp, sequence) pair, and the number of distinct ids
\* equals the number of successful calls.
C2_ConcurrentUnique ==
    /\ \A i, j \in 1..Len(log) :
          i # j => <<log[i].timestamp, log[i].sequence>> # <<log[j].timestamp, log[j].sequence>>
    /\ Cardinality({log[i].id : i \in 1..Len(log)}) = Len(log)

C2_Witness ==
    /\ served = Callers
    /\ Len(log) > MAX_SEQUENCE
    /\ \E c \in Callers : frame[c].active

\* C3: a generateId() call that reads a clock below lastTimestamp fails with
\* the clock-skew error, returns no id and leaves lastTimestamp and sequence
\* as they were.
C3_SkewLeavesState ==
    [][\A c \in Callers :
          (generateId(c) /\ clock < lastTimestamp) =>
              /\ outcome'.kind = "skew"
              /\ outcome'.caller = c
              /\ UNCHANGED <<lastTimestamp, sequence, log>>]_vars

C3_Witness ==
    /\ outcome.kind = "skew"
    /\ clock < lastTimestamp
    /\ Len(log) > 0

\* C4: from a reading T above lastTimestamp the ids carry T with sequence
\* 0, 1, ..., MAX_SEQUENCE in that order, and the id after sequence
\* MAX_SEQUENCE carries a strictly greater timestamp and sequence 0.
C4_SequenceOrder ==
    \A i \in 1..Len(log) :
        LET prevT == IF i = 1 THEN -1 ELSE log[i - 1].timestamp
            prevS == IF i = 1 THEN 0 ELSE log[i - 1].sequence
        IN  IF log[i].timestamp = prevT
            THEN log[i].sequence = prevS + 1 /\ prevS < MAX_SEQUENCE
            ELSE log[i].timestamp > prevT /\ log[i].sequence = 0

C4_Witness ==
    /\ outcome.kind = "id"
    /\ outcome.waited
    /\ \E i \in 1..Len(log) :
          /\ i + MAX_SEQUENCE + 1 = Len(log)
          /\ \A k \in 0..MAX_SEQUENCE :
                /\ log[i + k].timestamp = log[i].timestamp
                /\ log[i + k].sequence = k
          /\ log[Len(log)].timestamp > log[i].timestamp
          /\ log[Len(log)].sequence = 0

\* C5: a call that spins in waitNextMillis returns, given that the clock
\* eventually reads past lastTimestamp, and it returns an id at the first
\* reading of the spin that is greater than lastTimestamp.
C5_WaitTerminates ==
    /\ \A c \in Callers : frame[c].active ~> ~frame[c].active
    /\ [][\A c \in Callers :
            (waitNextMillis(c) /\ clock > lastTimestamp) =>
                /\ ~frame'[c].active
                /\ outcome' = [caller |-> c, kind |-> "id",
                               value |-> log'[Len(log')].id, waited |-> TRUE]]_vars

C5_Witness ==
    /\ outcome.kind = "id"
    /\ outcome.waited
    /\ \A c \in Callers : ~frame[c].active

\* ------------------------------------------------------------------ codec
\* the alphabet with the capital letter O typed as the digit 0
BASE62_CHARS_Typo ==
    << "0", "1", "2", "3", "4", "5", "6", "7", "8", "9",
       "a", "b", "c", "d", "e", "f", "g", "h", "i", "j", "k", "l", "m",
       "n", "o", "p", "q", "r", "s", "t", "u", "v", "w", "x", "y", "z",
       "A", "B", "C", "D", "E", "F", "G", "H", "I", "J", "K", "L", "M",
       "N", "0", "P", "Q", "R", "S", "T", "U", "V", "W", "X", "Y", "Z" >>

BASE62_CHARS ==
    << "0", "1", "2", "3", "4", "5", "6", "7", "8", "9",
       "a", "b", "c", "d", "e", "f", "g", "h", "i", "j", "k", "l", "m",
       "n", "o", "p", "q", "r", "s", "t", "u", "v", "w", "x", "y", "z",
       "A", "B", "C", "D", "E", "F", "G", "H", "I", "J", "K", "L", "M",
       "N", "O", "P", "Q", "R", "S", "T", "U", "V", "W", "X", "Y", "Z" >>
BASE == 62

\* String.prototype.indexOf for one character: 0-based index, or -1
IndexOf(chars, char) ==
    IF \E i \in 1..Len(chars) : chars[i] = char
    THEN (CHOOSE i \in 1..Len(chars) :
              chars[i] = char /\ \A j \in 1..(i - 1) : chars[j] # char) - 1
    ELSE -1

\* the loop of encodeBase62 with the digit appended instead of prepended
RECURSIVE EncodeLoopAppend(_, _)
EncodeLoopAppend(n, result) ==
    IF n > 0
    THEN EncodeLoopAppend(n \div 62, result \o <<BASE62_CHARS[(n % 62) + 1]>>)
    ELSE result

\* while (n > 0n) { result = BASE62_CHARS[n % base] + result; n = n / base }
RECURSIVE EncodeLoop(_, _)
EncodeLoop(n, result) ==
    IF n > 0
    THEN EncodeLoop(n \div BASE, <<BASE62_CHARS[(n % BASE) + 1]>> \o result)
    ELSE result

\* encodeBase62 without the case for 0
encodeBase62NoZero(n) == EncodeLoop(n, <<>>)

encodeBase62(n) ==
    IF n = 0 THEN <<BASE62_CHARS[1]>> ELSE EncodeLoop(n, <<>>)

\* the error message built from charIndex instead of char
InvalidCharacterIndex(s, i) ==
    [kind |-> "error", message |-> <<"Invalid Base62 character: ", "-1">>]

\* throw new Error(`Invalid Base62 character: ${char}`)
InvalidCharacter(s, i) ==
    [kind |-> "error", message |-> <<"Invalid Base62 character: ", s[i]>>]

\* the loop of decodeBase62 that skips a character outside the alphabet
RECURSIVE DecodeLoopSkip(_, _, _)
DecodeLoopSkip(s, i, n) ==
    IF i > Len(s)
    THEN [kind |-> "value", value |-> n]
    ELSE LET charIndex == IndexOf(BASE62_CHARS, s[i]) IN
           IF charIndex = -1
           THEN DecodeLoopSkip(s, i + 1, n)
           ELSE DecodeLoopSkip(s, i + 1, n * 62 + charIndex)

\* for (let i = 0; i < len; i++) { ... num = num * base + BigInt(charIndex) }
RECURSIVE DecodeLoop(_, _, _)
DecodeLoop(s, i, n) ==
    IF i > Len(s)
    THEN [kind |-> "value", value |-> n]
    ELSE LET charIndex == IndexOf(BASE62_CHARS, s[i]) IN
           IF charIndex = -1
           THEN InvalidCharacter(s, i)
           ELSE DecodeLoop(s, i + 1, n * BASE + charIndex)

decodeBase62(s) == DecodeLoop(s, 1, 0)

\* the inputs of the codec scenarios
CodecNums == (0..MaxNum) \cup {3843, 3844, 238327, 238328, 2147483647}
CodecChars == {"0", "1", "a", "Z", "!", "-"}
CodecStrs ==
    UNION {[1..n -> CodecChars] : n \in 0..MaxLen}
        \cup {<<"a", "b", "c", "!", "d">>}

GenIdle ==
    /\ clock = 0
    /\ sequence = 0
    /\ lastTimestamp = -1
    /\ machineId = 0
    /\ frame = [c \in Callers |-> NoFrame]
    /\ log = <<>>
    /\ outcome = [caller |-> NoCaller, kind |-> "none", value |-> 0, waited |-> FALSE]
    /\ served = {}

CodecInit ==
    /\ GenIdle
    /\ StartIdle
    /\ ShortenIdle
    /\ MiddlewareIdle
    /\ res = NoRes
    /\ \/ num \in CodecNums /\ str = <<>> /\ op = "num"
       \/ num = 0 /\ str \in CodecStrs /\ op = "str"

\* shortCode = encodeBase62(id)
Encode ==
    /\ op = "num"
    /\ str' = encodeBase62(num)
    /\ op' = "encoded"
    /\ UNCHANGED <<num, res>>
    /\ UNCHANGED nonCodecVars

\* decodeBase62(shortCode) of a string that encodeBase62 returned
DecodeEncoded ==
    /\ op = "encoded"
    /\ res' = decodeBase62(str)
    /\ op' = "roundtrip"
    /\ UNCHANGED <<num, str>>
    /\ UNCHANGED nonCodecVars

\* decodeBase62(s) of any string
Decode ==
    /\ op = "str"
    /\ res' = decodeBase62(str)
    /\ op' = "decoded"
    /\ UNCHANGED <<num, str>>
    /\ UNCHANGED nonCodecVars

\* encodeBase62(decodeBase62(s)) of a string that decodeBase62 accepted
EncodeDecoded ==
    /\ op = "decoded"
    /\ res.kind = "value"
    /\ res' = [kind |-> "code", value |-> res.value, code |-> encodeBase62(res.value)]
    /\ op' = "recoded"
    /\ UNCHANGED <<num, str>>
    /\ UNCHANGED nonCodecVars

CodecNext ==
    \/ Encode
    \/ DecodeEncoded
    \/ Decode
    \/ EncodeDecoded

CodecSpec == CodecInit /\ [][CodecNext]_vars

\* ----------------------------------------------------------- codec claims

\* C6: decodeBase62(encodeBase62(n)) = n for every non-negative integer n.
C6_RoundTrip ==
    op = "roundtrip" => res = [kind |-> "value", value |-> num]

C6_Witness ==
    /\ op = "roundtrip"
    /\ num >= MaxNum
    /\ Len(str) >= 2
    /\ res.kind = "value"

C8_RejectsInvalid ==
    op = "decoded" =>
        /\ (\E i \in 1..Len(str) : \A k \in 1..Len(BASE62_CHARS) : BASE62_CHARS[k] # str[i])
               => res.kind = "error"
        /\ str = <<"0">> => res = [kind |-> "value", value |-> 0]

C8_Witness ==
    /\ op = "decoded"
    /\ res.kind = "error"
    /\ Len(str) >= 3
    /\ \E k \in 1..Len(BASE62_CHARS) : BASE62_CHARS[k] = str[1]
    /\ \E k \in 1..Len(BASE62_CHARS) : BASE62_CHARS[k] = str[Len(str)]

\* C9 as stated: the error of decodeBase62 identifies the offending character
\* and its position, that is, two strings that fail with the same error have
\* their first invalid character at the same position.
C9_ErrorIdentifiesPosition ==
    LET Invalid(s, i) == \A k \in 1..Len(BASE62_CHARS) : BASE62_CHARS[k] # s[i]
        FirstInvalid(s) ==
            CHOOSE i \in 1..Len(s) : Invalid(s, i) /\ \A j \in 1..(i - 1) : ~Invalid(s, j)
    IN  (op = "decoded" /\ res.kind = "error") =>
            \A s \in CodecStrs :
                decodeBase62(s) = res => FirstInvalid(s) = FirstInvalid(str)

\* C9 as amended: the error of decodeBase62 identifies the offending
\* character, the first invalid one from the left, and nothing else.
C9_ErrorIdentifiesChar ==
    LET Invalid(s, i) == \A k \in 1..Len(BASE62_CHARS) : BASE62_CHARS[k] # s[i]
        FirstInvalid(s) ==
            CHOOSE i \in 1..Len(s) : Invalid(s, i) /\ \A j \in 1..(i - 1) : ~Invalid(s, j)
    IN  (op = "decoded" /\ \E i \in 1..Len(str) : Invalid(str, i)) =>
            /\ res.kind = "error"
            /\ res.message = <<"Invalid Base62 character: ", str[FirstInvalid(str)]>>

C9_Witness ==
    /\ op = "decoded"
    /\ res.kind = "error"
    /\ \E i, j \in 1..Len(str) :
          /\ i < j
          /\ str[i] # str[j]
          /\ \A k \in 1..Len(BASE62_CHARS) : BASE62_CHARS[k] # str[i] /\ BASE62_CHARS[k] # str[j]
          /\ res.message[2] = str[i]

\* C10: encodeBase62(0) is the string "0", and encodeBase62 never returns
\* the empty string.
C10_ZeroIsFirstChar ==
    op = "encoded" =>
        /\ Len(str) >= 1
        /\ num = 0 => str = <<"0">>

C10_Witness ==
    /\ op = "encoded"
    /\ num = 0
    /\ str = <<BASE62_CHARS[1]>>

\* ------------------------------------------------ identifier layout claims

\* parseId(id) without the derived field `date`
parseId(id) ==
    [timestamp |-> BitAnd(Shr(id, MACHINE_ID_BITS + SEQUENCE_BITS), TIMESTAMP_MASK),
     machineId |-> BitAnd(Shr(id, SEQUENCE_BITS), MAX_MACHINE_ID),
     sequence  |-> BitAnd(id, MAX_SEQUENCE)]

\* machine ids of a second generator, and of the same one
SampleMachineIds == {4, 5, MAX_MACHINE_ID}

\* C11: the id a call returns is timestamp, machine id and sequence laid side
\* by side, (timestamp << 22) | (machineId << 12) | sequence, with timestamp
\* and sequence the values the call leaves in lastTimestamp and sequence.
C11_IdIsComposition ==
    outcome.kind = "id" =>
        /\ outcome.value = lastTimestamp * Pow2(MACHINE_ID_BITS + SEQUENCE_BITS)
                             + machineId * Pow2(SEQUENCE_BITS)
                             + sequence
        /\ log[Len(log)] = [timestamp |-> lastTimestamp, sequence |-> sequence,
                            id |-> outcome.value]

C11_Witness ==
    /\ outcome.kind = "id"
    /\ sequence > 0
    /\ lastTimestamp >= 0
    /\ machineId > 0

\* C12: for every id that generateId() returned,
\* parseId(decodeBase62(encodeBase62(id))) equals parseId(id), and both equal
\* the timestamp, machine id and sequence the id was composed from.
C12_EndToEnd ==
    outcome.kind = "id" =>
        LET id == outcome.value
            decoded == decodeBase62(encodeBase62(id))
        IN  /\ decoded.kind = "value"
            /\ parseId(decoded.value) = parseId(id)
            /\ parseId(id) = [timestamp |-> lastTimestamp, machineId |-> machineId,
                              sequence |-> sequence]

\* C13: an id of this generator differs from every id of a generator with
\* another machine id, whatever that generator's timestamp and sequence, and
\* equals an id with the same machine id only for the same timestamp and
\* sequence.
C13_DistinctAcrossNodes ==
    outcome.kind = "id" =>
        \A m2 \in SampleMachineIds, t2 \in MinClock..MaxClock, s2 \in 0..MAX_SEQUENCE :
            ComposeId(t2, m2, s2) = outcome.value
                <=> (m2 = machineId /\ t2 = lastTimestamp /\ s2 = sequence)

C13_Witness ==
    /\ outcome.kind = "id"
    /\ machineId = 5
    /\ sequence = 0
    /\ Len(log) >= 2

\* C25: the ids of one generator are strictly increasing in the order they
\* were returned: no id carries a smaller timestamp than an earlier one, ids
\* of one millisecond carry increasing sequences, and lastTimestamp never
\* decreases.
C25_StrictlyIncreasing ==
    /\ [](\A i \in 1..(Len(log) - 1) :
            /\ log[i].id < log[i + 1].id
            /\ log[i].timestamp <= log[i + 1].timestamp
            /\ log[i].timestamp = log[i + 1].timestamp =>
                  log[i].sequence < log[i + 1].sequence)
    /\ [][lastTimestamp' >= lastTimestamp]_vars

C25_Witness ==
    /\ Len(log) >= 3
    /\ log[1].timestamp < 0
    /\ log[Len(log)].timestamp >= 0
    /\ \E i \in 1..(Len(log) - 1) : log[i].timestamp = log[i + 1].timestamp
    /\ clock < lastTimestamp

\* C26: a call that reads a clock above lastTimestamp returns the id of that
\* reading with sequence 0, whatever sequence was; in the order of return the
\* first id of a millisecond has sequence 0 and each further one the next
\* sequence.
C26_NewMillisecondFromZero ==
    /\ [][\A c \in Callers :
            (generateId(c) /\ clock > lastTimestamp) =>
                /\ outcome' = [caller |-> c, kind |-> "id",
                               value |-> ComposeId(clock, machineId, 0),
                               waited |-> FALSE]
                /\ lastTimestamp' = clock
                /\ sequence' = 0]_vars
    /\ [](\A i \in 1..Len(log) :
            log[i].sequence =
                IF i > 1 /\ log[i - 1].timestamp = log[i].timestamp
                THEN log[i - 1].sequence + 1
                ELSE 0)

C26_Witness ==
    /\ outcome.kind = "id"
    /\ ~outcome.waited
    /\ sequence = 0
    /\ Len(log) >= 3
    /\ log[Len(log) - 1].sequence > 0
    /\ log[Len(log) - 1].sequence < MAX_SEQUENCE
    /\ log[Len(log) - 1].timestamp < lastTimestamp

\* C27: sequence is in 0..MAX_SEQUENCE in every state, and an id that was
\* returned parses to the sequence it was given, in 0..MAX_SEQUENCE, and to
\* the machine id of the generator, in 0..MAX_MACHINE_ID.
C27_FieldsInRange ==
    /\ sequence \in 0..MAX_SEQUENCE
    /\ outcome.kind = "id" =>
          LET parsed == parseId(outcome.value)
          IN  /\ parsed.sequence \in 0..MAX_SEQUENCE
              /\ parsed.sequence = log[Len(log)].sequence
              /\ parsed.machineId \in 0..MAX_MACHINE_ID
              /\ parsed.machineId = machineId

C27_Witness ==
    /\ outcome.kind = "id"
    /\ sequence = MAX_SEQUENCE
    /\ machineId = MAX_MACHINE_ID
    /\ lastTimestamp < 0

\* C28: every id that was returned has a timestamp of at most TsBits bits:
\* the id is not negative and below 2^(TsBits + 22), and parseId gives back
\* the timestamp the id was made with.
C28_FitsLayout ==
    outcome.kind = "id" =>
        /\ lastTimestamp \in 0..TIMESTAMP_MASK
        /\ outcome.value >= 0
        /\ outcome.value < Pow2(TsBits + MACHINE_ID_BITS + SEQUENCE_BITS)
        /\ parseId(outcome.value).timestamp = lastTimestamp

\* ---------------------------------------------------------------- startup
Digits == <<"0", "1", "2", "3", "4", "5", "6", "7", "8", "9">>

RECURSIVE SkipWhiteSpace(_, _)
SkipWhiteSpace(s, i) ==
    IF i <= Len(s) /\ s[i] = " " THEN SkipWhiteSpace(s, i + 1) ELSE i

RECURSIVE ParseDigits(_, _, _)
ParseDigits(s, i, acc) ==
    IF i <= Len(s) /\ IndexOf(Digits, s[i]) # -1
    THEN ParseDigits(s, i + 1, acc * 10 + IndexOf(Digits, s[i]))
    ELSE acc

\* parseInt(s, 10): leading white space, a sign, the longest run of digits;
\* NaN when there is no digit
parseInt(s) ==
    LET i == SkipWhiteSpace(s, 1)
        signed == i <= Len(s) /\ s[i] \in {"-", "+"}
        j == IF signed THEN i + 1 ELSE i
    IN  IF j <= Len(s) /\ IndexOf(Digits, s[j]) # -1
        THEN [nan |-> FALSE,
              value |-> IF signed /\ s[i] = "-"
                        THEN 0 - ParseDigits(s, j, 0)
                        ELSE ParseDigits(s, j, 0)]
        ELSE [nan |-> TRUE, value |-> 0]

HostChars == {"a", "z", "-"}

\* hostname.charCodeAt(i)
charCodeAt(ch) == CASE ch = "a" -> 97 [] ch = "z" -> 122 [] ch = "-" -> 45

\* hash = ((hash << 5) - hash) + char; hash = hash & hash
\* The result is 31 * hash + char reduced to a signed 32-bit integer; it is
\* computed on 16-bit halves, as 31 * hash does not fit a 32-bit integer.
HashStep(hash, char) ==
    LET lo == hash % 65536
        hi == hash \div 65536
        t == 31 * lo + char
        hi2 == 31 * hi + (t \div 65536)
        hiw == ((hi2 + 32768) % 65536) - 32768
    IN  hiw * 65536 + (t % 65536)

RECURSIVE HashLoop(_, _, _)
HashLoop(host, i, hash) ==
    IF i > Len(host) THEN hash
    ELSE HashLoop(host, i + 1, HashStep(hash, charCodeAt(host[i])))

\* Math.abs(hash) & MAX_MACHINE_ID; Math.abs(-2^31) is 2^31, whose low bits are 0
AbsAndMask(hash) ==
    IF hash = (0 - 2147483647) - 1 THEN 0
    ELSE BitAnd(IF hash < 0 THEN 0 - hash ELSE hash, MAX_MACHINE_ID)

\* if (id < 0 || id > MAX_MACHINE_ID): both comparisons are false for NaN
OutOfRange(id) == ~id.nan /\ (id.value < 0 \/ id.value > MAX_MACHINE_ID)

getMachineId(env, host) ==
    IF env.set
    THEN LET id == parseInt(env.value) IN
           IF OutOfRange(id)
           THEN [kind |-> "throw", id |-> 0]
           ELSE [kind |-> "value", id |-> IF id.nan THEN NaN ELSE id.value]
    ELSE [kind |-> "value", id |-> AbsAndMask(HashLoop(host, 1, 0))]

\* machineId before the module is loaded
Unresolved == 0 - 2

EnvValues ==
    { <<"0">>, <<"5">>, <<"4", "2">>, <<"1", "0", "2", "3">>, <<"1", "0", "2", "4">>,
      <<"-", "1">>, <<"9", "9", "9", "9", "9">>, <<" ", "7">>, <<"-", "0">>,
      <<"1", "2", "a", "b", "c">>, <<"a", "b", "c">>, <<>> }

Hostnames == UNION {[1..n -> HostChars] : n \in 0..MaxHost}

StartupInit ==
    /\ CodecIdle
    /\ ShortenIdle
    /\ MiddlewareIdle
    /\ clock = 0
    /\ sequence = 0
    /\ lastTimestamp = -1
    /\ machineId = Unresolved
    /\ frame = [c \in Callers |-> NoFrame]
    /\ log = <<>>
    /\ outcome = [caller |-> NoCaller, kind |-> "none", value |-> 0, waited |-> FALSE]
    /\ served = {}
    /\ startup = "pending"
    /\ \/ /\ envMachineId \in {[set |-> TRUE, value |-> v] : v \in EnvValues}
          /\ hostname = <<"a">>
       \/ /\ envMachineId = [set |-> FALSE, value |-> <<>>]
          /\ hostname \in Hostnames

\* const machineId = getMachineId(), when the module is loaded
LoadModule ==
    /\ startup = "pending"
    /\ LET r == getMachineId(envMachineId, hostname) IN
         IF r.kind = "throw"
         THEN startup' = "aborted" /\ UNCHANGED machineId
         ELSE startup' = "running" /\ machineId' = r.id
    /\ UNCHANGED <<clock, sequence, lastTimestamp, frame, log, outcome, served>>
    /\ UNCHANGED <<envMachineId, hostname>>
    /\ UNCHANGED <<codecVars, shortenVars, middlewareVars>>

\* generateId() of the loaded module
StartupGenerate(c) ==
    /\ startup = "running"
    /\ generateId(c)

StartupNext ==
    \/ LoadModule
    \/ \E c \in Callers : StartupGenerate(c)

StartupSpec == StartupInit /\ [][StartupNext]_vars

\* C15: the machine id of a running process is an integer in
\* 0..MAX_MACHINE_ID: a configured MACHINE_ID in the range is used as given,
\* one outside the range aborts the startup, without MACHINE_ID the id comes
\* from the host name; it does not change afterwards.
C15_MachineIdInRange ==
    LET RECURSIVE Decimal(_)
        Decimal(n) == IF n < 10 THEN <<Digits[n + 1]>>
                      ELSE Decimal(n \div 10) \o <<Digits[(n % 10) + 1]>>
    IN  /\ startup = "running" => machineId \in 0..MAX_MACHINE_ID
        /\ startup # "pending" =>
              /\ \A n \in 0..MAX_MACHINE_ID :
                    envMachineId = [set |-> TRUE, value |-> Decimal(n)]
                        => startup = "running" /\ machineId = n
              /\ \A n \in {MAX_MACHINE_ID + 1, 99999} :
                    envMachineId = [set |-> TRUE, value |-> Decimal(n)]
                        => startup = "aborted"
              /\ envMachineId = [set |-> TRUE, value |-> <<"-", "1">>]
                        => startup = "aborted"
              /\ ~envMachineId.set => startup = "running"

\* ------------------------------------------------------------ cache service
\* getUrlFromCache, setUrlInCache and invalidateCache over one Redis client.
\* A Redis call either answers ("ok") or throws an error with a code.  The
\* counters of `stats' and their log lines have no effect on what the
\* functions return and are left out.
RedisReplies == {"ok"} \cup ErrorCodes

\* the flag not looked at: Redis is called whatever it says
NotConnectedIgnored == FALSE

\* if (!isConnected())
NotConnected == ~isConnected

\* if (error.code === 'ECONNREFUSED' || error.code === 'NR_CLOSED')
MarksDisconnected(code) == code \in {"ECONNREFUSED", "NR_CLOSED"}

\* the catch block of the three functions
CatchRedisError(fn, code, r) ==
    /\ isConnected' = IF MarksDisconnected(r) THEN FALSE ELSE isConnected
    /\ cacheRes' = [fn |-> fn, code |-> code, called |-> TRUE,
                    result |-> IF fn = "get" THEN "null" ELSE "void", error |-> r]
    /\ UNCHANGED cache

\* the early return of the three functions
ReturnAtOnce(fn, code) ==
    /\ cacheRes' = [fn |-> fn, code |-> code, called |-> FALSE,
                    result |-> IF fn = "get" THEN "null" ELSE "void", error |-> "none"]
    /\ UNCHANGED <<isConnected, cache>>

\* getUrlFromCache(shortCode), r being what redisClient.get does
getUrlFromCache(code, r) ==
    /\ IF NotConnected
       THEN ReturnAtOnce("get", code)
       ELSE IF r = "ok"
            THEN /\ cacheRes' = [fn |-> "get", code |-> code, called |-> TRUE,
                                 result |-> IF cache[code].present THEN "hit" ELSE "null",
                                 error |-> "none"]
                 /\ UNCHANGED <<isConnected, cache>>
            ELSE CatchRedisError("get", code, r)
    /\ UNCHANGED connectSettled

\* setUrlInCache(shortCode, originalUrl, id), r being what redisClient.setEx does
setUrlInCache(code, url, id, r) ==
    /\ IF NotConnected
       THEN ReturnAtOnce("set", code)
       ELSE IF r = "ok"
            THEN /\ cache' = [cache EXCEPT ![code] =
                                [present |-> TRUE, url |-> url, id |-> id]]
                 /\ cacheRes' = [fn |-> "set", code |-> code, called |-> TRUE,
                                 result |-> "void", error |-> "none"]
                 /\ UNCHANGED isConnected
            ELSE CatchRedisError("set", code, r)
    /\ UNCHANGED connectSettled

\* invalidateCache(shortCode), r being what redisClient.del does
invalidateCache(code, r) ==
    /\ IF NotConnected
       THEN ReturnAtOnce("del", code)
       ELSE IF r = "ok"
            THEN /\ cache' = [k \in DOMAIN cache |->
                                IF k = code THEN NoEntry ELSE cache[k]]
                 /\ cacheRes' = [fn |-> "del", code |-> code, called |-> TRUE,
                                 result |-> "void", error |-> "none"]
                 /\ UNCHANGED isConnected
            ELSE CatchRedisError("del", code, r)
    /\ UNCHANGED connectSettled

\* ---------------------------------------------------------- POST /shorten
\* The handler between pool.connect() and the response.  A request is at
\*   "idle"   not yet arrived
\*   "loop"   in the retry loop, about to call generateId()
\*   "spin"   inside generateId(), in the busy wait of waitNextMillis()
\*   "delay"  awaiting the 1 ms timer after a clock-skew failure
\*   "begin"  past the loop, about to run BEGIN, INSERT, COMMIT
\*   "done"   answered with 201
\*   "failed" ended with an error
\* history is the list of the outcomes of the generateId() calls of the request.

\* the budget checked only after it was exceeded
RetryBudgetSpentLate(retries) == retries > MAX_RETRIES

\* if (retries >= MAX_RETRIES)
RetryBudgetSpent(retries) == retries >= MAX_RETRIES

\* while (retries < MAX_RETRIES): where the request goes at the head of the loop
LoopHead(retries) == IF retries < MAX_RETRIES THEN "loop" ELSE "begin"

\* id = generateId(); shortCode = encodeBase62(id); break
AttemptReturned(r, id) ==
    [r EXCEPT !.pc = "begin", !.id = id, !.hasId = TRUE,
              !.shortCode = encodeBase62(id),
              !.history = Append(@, "id")]

\* catch (idError): a clock-skew error is counted and retried, any other rethrown
AttemptThrew(r, kind) ==
    IF kind = "skew"
    THEN IF RetryBudgetSpent(r.retries + 1)
         THEN [r EXCEPT !.pc = "failed", !.error = "skew", !.retries = @ + 1,
                        !.history = Append(@, kind)]
         ELSE [r EXCEPT !.pc = "delay", !.retries = @ + 1,
                        !.history = Append(@, kind)]
    ELSE [r EXCEPT !.pc = "failed", !.error = "generator",
                   !.history = Append(@, kind)]

\* what the handler does with the step generateId() just made
AfterCall(c) ==
    req' = [req EXCEPT ![c] =
              CASE outcome'.kind = "id" -> AttemptReturned(@, outcome'.value)
                [] outcome'.kind = "spin" -> [@ EXCEPT !.pc = "spin"]
                [] OTHER -> AttemptThrew(@, outcome'.kind)]

\* the request passed validation and holds a database client
StartRequest(c) ==
    /\ req[c].pc = "idle"
    /\ CanEnter(c)
    /\ req' = [req EXCEPT ![c].pc = LoopHead(req[c].retries)]
    /\ UNCHANGED inserts
    /\ UNCHANGED <<genVars, nonShortenVars>>

\* one iteration of the retry loop
ShortenAttempt(c) ==
    /\ req[c].pc = "loop"
    /\ generateIdCall(c)
    /\ AfterCall(c)
    /\ UNCHANGED inserts
    /\ UNCHANGED nonShortenVars

\* generateId() is in its busy wait: nothing else runs
ShortenSpin(c) ==
    /\ req[c].pc = "spin"
    /\ waitNextMillisCall(c)
    /\ IF frame'[c].active THEN UNCHANGED req ELSE AfterCall(c)
    /\ UNCHANGED inserts
    /\ UNCHANGED nonShortenVars

\* await new Promise(resolve => setTimeout(resolve, 1)); continue
DelayElapsed(c) ==
    /\ req[c].pc = "delay"
    /\ CanEnter(c)
    /\ req' = [req EXCEPT ![c].pc = LoopHead(req[c].retries)]
    /\ UNCHANGED inserts
    /\ UNCHANGED <<genVars, nonShortenVars>>

\* BEGIN; INSERT INTO urls (id, short_code, original_url); COMMIT
Transaction(c) ==
    /\ req[c].pc = "begin"
    /\ CanEnter(c)
    /\ \E db \in {"ok", "beginFailed", "insertFailed"} :
          /\ inserts' = IF db = "beginFailed" THEN inserts
                        ELSE Append(inserts, [caller |-> c, id |-> req[c].id,
                                              hasId |-> req[c].hasId,
                                              shortCode |-> req[c].shortCode])
          /\ req' = [req EXCEPT ![c] =
                       IF db = "ok" THEN [@ EXCEPT !.pc = "done"]
                       ELSE [@ EXCEPT !.pc = "failed", !.error = "database"]]
          /\ IF db = "ok"
             THEN \E r \in RedisReplies : invalidateCache(req[c].shortCode, r)
             ELSE UNCHANGED cacheVars
    /\ UNCHANGED <<genVars, codecVars, startVars, now, rateVars, cbVars, redirectVars>>

\* the ids the generator gave out before the requests: none, or all of one millisecond
ExhaustedLog(t, mid) ==
    [i \in 1..(MAX_SEQUENCE + 1) |->
        [timestamp |-> t, sequence |-> i - 1, id |-> ComposeId(t, mid, i - 1)]]

ShortenInit ==
    /\ CodecIdle
    /\ StartIdle
    /\ ShortenIdle
    /\ MiddlewareIdle
    /\ clock \in MinClock..MaxClock
    /\ machineId \in MachineIds \cup {NaN}
    /\ frame = [c \in Callers |-> NoFrame]
    /\ outcome = [caller |-> NoCaller, kind |-> "none", value |-> 0, waited |-> FALSE]
    /\ served = {}
    /\ \/ /\ sequence = 0
          /\ lastTimestamp = -1
          /\ log = <<>>
       \/ /\ machineId # NaN
          /\ sequence = MAX_SEQUENCE
          /\ lastTimestamp \in 0..(MaxClock - 1)
          /\ log = ExhaustedLog(lastTimestamp, machineId)

ShortenNext ==
    \/ \E c \in Callers : StartRequest(c)
    \/ \E c \in Callers : ShortenAttempt(c)
    \/ \E c \in Callers : ShortenSpin(c)
    \/ \E c \in Callers : DelayElapsed(c)
    \/ \E c \in Callers : Transaction(c)
    \/ ClockAdvance
    \/ ClockRegress

ShortenSpec == ShortenInit /\ [][ShortenNext]_vars

\* C14: a request calls generateId() at most MAX_RETRIES times; only a
\* clock-skew failure is followed by another call, and only after the delay;
\* the MAX_RETRIES-th clock-skew failure ends the request with the clock-skew
\* error, any other generator error ends it at once; what is given to INSERT
\* is an id that a generateId() call of the request returned.
C14_BoundedRetry ==
    /\ [](\A c \in Callers :
            LET r == req[c]
                h == r.history
                n == Len(r.history)
            IN  /\ n <= MAX_RETRIES
                /\ \A i \in 1..(n - 1) : h[i] = "skew"
                /\ r.pc = "delay" => n >= 1 /\ h[n] = "skew"
                /\ (n >= 1 /\ h[n] = "skew") =>
                       IF n = MAX_RETRIES
                       THEN r.pc = "failed" /\ r.error = "skew"
                       ELSE r.pc \in {"delay", "loop", "spin"}
                /\ (n >= 1 /\ h[n] = "rangeError") =>
                       r.pc = "failed" /\ r.error = "generator"
                /\ r.pc \in {"begin", "done"} =>
                       /\ r.hasId
                       /\ h[n] = "id"
                       /\ \E i \in 1..Len(log) : log[i].id = r.id)
    /\ [](\A k \in 1..Len(inserts) :
            /\ inserts[k].hasId
            /\ req[inserts[k].caller].history # <<>>
            /\ \E i \in 1..Len(log) : log[i].id = inserts[k].id)
    /\ [][\A c \in Callers :
            (req[c].pc # "loop" /\ req'[c].pc = "loop") =>
                req[c].pc \in {"idle", "delay"}]_vars

C14_Witness ==
    \E c, d \in Callers :
        /\ req[c].history = <<"skew", "skew", "skew">>
        /\ req[c].pc = "failed"
        /\ req[d].pc = "done"
        /\ Len(req[d].history) >= 2
        /\ Len(inserts) = 1

\* ------------------------------------------------------------ rate limiter
\* Math.ceil(a / b)
CeilDiv(a, b) == 0 - ((0 - a) \div b)

\* the window is never taken as over once the IP has a record
WindowExpiredNever(record) == ~record.present

\* if (!record || now > record.resetTime)
WindowExpired(record) == ~record.present \/ now > record.resetTime

\* the limit compared one request late
OverLimitLate(count, l) == count > maxRequests(l) + 1

\* if (record.count > maxRequests)
OverLimit(count, l) == count > maxRequests(l)

\* rateLimitStore.set(ip, { count: 1, resetTime: now + windowMs }); return next()
NewWindow(l, ip) ==
    /\ rateLimitStore' = [rateLimitStore EXCEPT ![ip] =
                            [present |-> TRUE, count |-> 1, resetTime |-> now + windowMs(l)]]
    /\ rlResp' = [limiter |-> l, ip |-> ip, status |-> 0, retryAfter |-> Null,
                  remaining |-> Null, next |-> TRUE, passedBefore |-> 0,
                  countBefore |-> rateLimitStore[ip].count]
    /\ rlPassed' = [k \in Limiters |->
                      [rlPassed[k] EXCEPT ![ip] = IF k = l THEN 1 ELSE 0]]

\* record.count++, then 429 with Retry-After, or the headers and next()
CountRequest(l, ip) ==
    LET record == rateLimitStore[ip]
        count == record.count + 1
    IN  /\ rateLimitStore' = [rateLimitStore EXCEPT ![ip].count = count]
        /\ IF OverLimit(count, l)
           THEN /\ rlResp' = [limiter |-> l, ip |-> ip, status |-> 429,
                              retryAfter |-> CeilDiv(record.resetTime - now, 1000),
                              remaining |-> 0, next |-> FALSE,
                              passedBefore |-> rlPassed[l][ip],
                              countBefore |-> record.count]
                /\ UNCHANGED rlPassed
           ELSE /\ rlResp' = [limiter |-> l, ip |-> ip, status |-> 0,
                              retryAfter |-> Null,
                              remaining |-> IF maxRequests(l) - count > 0
                                            THEN maxRequests(l) - count ELSE 0,
                              next |-> TRUE, passedBefore |-> rlPassed[l][ip],
                              countBefore |-> record.count]
                /\ rlPassed' = [rlPassed EXCEPT ![l][ip] = @ + 1]
            
\* the middleware that createRateLimiter returned, for one request of ip
RateLimitCall(l, ip) ==
    /\ rateLimitStore[ip].count < MaxCount
    /\ IF WindowExpired(rateLimitStore[ip])
       THEN NewWindow(l, ip)
       ELSE CountRequest(l, ip)
    /\ UNCHANGED <<now, cbVars>>
    /\ UNCHANGED <<genVars, codecVars, startVars, shortenVars, cacheVars, redirectVars>>

RateLimit(l, ip) ==
    /\ RateLimitCall(l, ip)
    /\ UNCHANGED rlRecent

\* the setInterval callback: records whose window is over are deleted
CleanupExpired ==
    /\ \E ip \in IPs : rateLimitStore[ip].present /\ now > rateLimitStore[ip].resetTime
    /\ rateLimitStore' = [ip \in IPs |->
                            IF rateLimitStore[ip].present /\ now > rateLimitStore[ip].resetTime
                            THEN NoRecord
                            ELSE rateLimitStore[ip]]
    /\ UNCHANGED <<now, rlResp, rlPassed, rlRecent, cbVars>>
    /\ UNCHANGED <<genVars, codecVars, startVars, shortenVars, cacheVars, redirectVars>>

\* time passes between two requests
RateTick ==
    /\ \E t \in (now + 1)..MaxNow : now' = t
    /\ UNCHANGED <<rateVars, cbVars>>
    /\ UNCHANGED <<genVars, codecVars, startVars, shortenVars, cacheVars, redirectVars>>

RateInit ==
    /\ GenIdle
    /\ CodecIdle
    /\ StartIdle
    /\ ShortenIdle
    /\ MiddlewareIdle

RateNext ==
    \/ \E l \in Limiters, ip \in IPs : RateLimit(l, ip)
    \/ CleanupExpired
    \/ RateTick

RateSpec == RateInit /\ [][RateNext]_vars

\* C16: a limiter passes at most maxRequests requests of an IP on in one
\* window; a request of an IP that has had maxRequests requests passed by the
\* limiter in the window is answered with 429 and a Retry-After header and is
\* not passed on.
C16_AtMostMaxPerWindow ==
    /\ \A l \in Limiters, ip \in IPs : rlPassed[l][ip] <= maxRequests(l)
    /\ rlResp.limiter # "none" =>
          /\ rlResp.passedBefore >= maxRequests(rlResp.limiter) =>
                rlResp.status = 429
          /\ rlResp.status = 429 =>
                /\ ~rlResp.next
                /\ rlResp.retryAfter # Null
                /\ rlResp.retryAfter >= 0
          /\ rlResp.status # 429 => rlResp.next

C16_Witness ==
    /\ rlResp.status = 429
    /\ rlResp.limiter = "redirect"
    /\ rlResp.passedBefore = maxRequests("redirect")
    /\ rlPassed["shorten"][rlResp.ip] = 0
    /\ rlResp.retryAfter = 1

\* C17: the limits are counted per endpoint: a limiter answers 429 only to an
\* IP that has had maxRequests requests passed by this limiter in the window,
\* whatever the IP sent to the other endpoint.
C17_CountedPerEndpoint ==
    rlResp.status = 429 => rlResp.passedBefore >= maxRequests(rlResp.limiter)

\* The requests of one client, with the arrival times of those passed on in
\* the last windowMs ms.
SlideIPs == {"ip1"}

\* the arrival times that lie less than w ms before t
Within(times, t, w) ==
    LET keep == {i \in 1..Len(times) : t - times[i] < w}
    IN  [i \in 1..Cardinality(keep) |-> times[Len(times) - Cardinality(keep) + i]]

SlideRequest(l, ip) ==
    /\ RateLimitCall(l, ip)
    /\ rlRecent' = [rlRecent EXCEPT ![l][ip] = IF rlResp'.next THEN Append(@, now) ELSE @]

SlideTick ==
    /\ \E t \in (now + 1)..MaxNow : now' = t
    /\ rlRecent' = [l \in Limiters |->
                      [ip \in IPs |-> Within(rlRecent[l][ip], now', windowMs(l))]]
    /\ UNCHANGED <<rateLimitStore, rlResp, rlPassed, cbVars>>
    /\ UNCHANGED <<genVars, codecVars, startVars, shortenVars, cacheVars, redirectVars>>

SlideNext ==
    \/ \E l \in Limiters, ip \in SlideIPs : SlideRequest(l, ip)
    \/ CleanupExpired
    \/ SlideTick

SlideSpec == RateInit /\ [][SlideNext]_vars

\* C29: in every interval of windowMs ms a limiter passes at most
\* maxRequests requests of an IP on, wherever the interval starts.
C29_SlidingWindow ==
    \A l \in Limiters, ip \in IPs : Len(rlRecent[l][ip]) <= maxRequests(l)

\* C30: a request that finds the record of its IP with now > resetTime is
\* passed on and starts a new window, count 1 and resetTime = now + windowMs,
\* whatever count was.
C30_AdmittedAgain ==
    [][\A l \in Limiters, ip \in IPs :
          (RateLimit(l, ip) /\ rateLimitStore[ip].present
                            /\ now > rateLimitStore[ip].resetTime) =>
              /\ rlResp'.next
              /\ rlResp'.status # 429
              /\ rateLimitStore'[ip] = [present |-> TRUE, count |-> 1,
                                        resetTime |-> now + windowMs(l)]]_vars

C30_Witness ==
    /\ rlResp.next
    /\ rlResp.limiter = "shorten"
    /\ rlResp.countBefore > maxRequests("redirect")
    /\ rateLimitStore[rlResp.ip].count = 1
    /\ rateLimitStore[rlResp.ip].resetTime = now + windowMs("shorten")

\* --------------------------------------------------------- circuit breaker
\* One CircuitBreaker and the execute() calls of several callers.  A call
\* runs up to `await fn()' in one step and resumes, when fn() has settled, in
\* another; calls of other callers run in between.  reset() has no caller in
\* the program and is left out.

\* the reset timeout taken as passed one millisecond early
ResetTimeoutPassedEarly ==
    now - (IF lastFailureTime = Null THEN 0 ELSE lastFailureTime) >= resetTimeout

\* if (Date.now() - this.lastFailureTime > this.resetTimeout)
ResetTimeoutPassed ==
    now - (IF lastFailureTime = Null THEN 0 ELSE lastFailureTime) > resetTimeout

\* the circuit opened one failure late
FailureThresholdReachedLate(count) == count > failureThreshold

\* if (this.failureCount >= this.failureThreshold)
FailureThresholdReached(count) == count >= failureThreshold

\* the circuit closed one success late
SuccessThresholdReachedLate(count) == count > successThreshold

\* if (this.successCount >= this.successThreshold)
SuccessThresholdReached(count) == count >= successThreshold

\* this.state = HALF_OPEN; this.successCount = 0
EnterHalfOpen ==
    /\ cbState' = "HALF_OPEN"
    /\ successCount' = 0
    /\ hoSucc' = 0
    /\ UNCHANGED <<failureCount, lastFailureTime, streak>>

\* const result = await fn(): fn is invoked, the call waits for it to settle
Invoke(c, fb) ==
    /\ pending' = [pending EXCEPT ![c] = [active |-> TRUE, fallback |-> fb]]
    /\ cbResp' = [caller |-> c, kind |-> "called", called |-> TRUE]
    /\ hoCalls' = IF cbState' # "HALF_OPEN" THEN hoCalls
                  ELSE IF cbState = "HALF_OPEN" THEN hoCalls + 1 ELSE 1

\* return fallback(), or throw new Error(`${this.name} circuit breaker is OPEN`)
FailFast(c, fb) ==
    /\ cbResp' = [caller |-> c, kind |-> IF fb THEN "fallback" ELSE "openError",
                  called |-> FALSE]
    /\ UNCHANGED <<cbState, failureCount, successCount, lastFailureTime, pending,
                   streak, hoSucc, hoCalls>>

\* execute(fn, fallback) up to its await
executeCall(c, fb) ==
    /\ ~pending[c].active
    /\ IF cbState = "OPEN"
       THEN IF ResetTimeoutPassed
            THEN EnterHalfOpen /\ Invoke(c, fb)
            ELSE FailFast(c, fb)
       ELSE /\ UNCHANGED <<cbState, failureCount, successCount, lastFailureTime,
                           streak, hoSucc>>
            /\ Invoke(c, fb)

execute(c, fb) ==
    /\ executeCall(c, fb)
    /\ UNCHANGED <<now, rateVars>>
    /\ UNCHANGED <<genVars, codecVars, startVars, shortenVars, cacheVars, redirectVars>>

\* fn() resolved: the lines after the await
FnResolveCall(c) ==
    /\ pending[c].active
    /\ IF cbState = "HALF_OPEN"
       THEN IF SuccessThresholdReached(successCount + 1)
            THEN /\ cbState' = "CLOSED"
                 /\ failureCount' = 0
                 /\ successCount' = 0
            ELSE /\ successCount' = successCount + 1
                 /\ UNCHANGED <<cbState, failureCount>>
       ELSE /\ failureCount' = 0
            /\ UNCHANGED <<cbState, successCount>>
    /\ streak' = 0
    /\ hoSucc' = IF cbState = "HALF_OPEN" THEN hoSucc + 1 ELSE hoSucc
    /\ pending' = [pending EXCEPT ![c] = NoPending]
    /\ cbResp' = [caller |-> c, kind |-> "result", called |-> FALSE]
    /\ UNCHANGED <<lastFailureTime, hoCalls>>

FnResolve(c) ==
    /\ FnResolveCall(c)
    /\ UNCHANGED <<now, rateVars>>
    /\ UNCHANGED <<genVars, codecVars, startVars, shortenVars, cacheVars, redirectVars>>

\* fn() threw or rejected: the catch block
FnRejectCall(c) ==
    /\ pending[c].active
    /\ failureCount' = failureCount + 1
    /\ lastFailureTime' = now
    /\ cbState' = IF FailureThresholdReached(failureCount + 1) THEN "OPEN" ELSE cbState
    /\ streak' = streak + 1
    /\ pending' = [pending EXCEPT ![c] = NoPending]
    /\ cbResp' = [caller |-> c,
                  kind |-> IF cbState' = "OPEN" /\ pending[c].fallback
                           THEN "fallback" ELSE "error",
                  called |-> FALSE]
    /\ UNCHANGED <<successCount, hoSucc, hoCalls>>

FnReject(c) ==
    /\ FnRejectCall(c)
    /\ UNCHANGED <<now, rateVars>>
    /\ UNCHANGED <<genVars, codecVars, startVars, shortenVars, cacheVars, redirectVars>>

\* time passes
CbTick ==
    /\ \E t \in (now + 1)..MaxNow : now' = t
    /\ UNCHANGED <<rateVars, cbVars>>
    /\ UNCHANGED <<genVars, codecVars, startVars, shortenVars, cacheVars, redirectVars>>

CbInit ==
    /\ GenIdle
    /\ CodecIdle
    /\ StartIdle
    /\ ShortenIdle
    /\ MiddlewareIdle

CbNext ==
    \/ \E c \in Callers, fb \in BOOLEAN : execute(c, fb)
    \/ \E c \in Callers : FnResolve(c)
    \/ \E c \in Callers : FnReject(c)
    \/ CbTick

CbSpec == CbInit /\ [][CbNext]_vars

\* C18: an execute() call that finds the state OPEN with no more than
\* resetTimeout ms passed since lastFailureTime does not invoke fn, ends with
\* fallback() when a fallback was given and with the circuit-open error
\* otherwise, and leaves state and counters as they were.
C18_FailFast ==
    [][\A c \in Callers, fb \in BOOLEAN :
          (execute(c, fb) /\ cbState = "OPEN" /\ now - lastFailureTime <= resetTimeout) =>
              /\ cbResp' = [caller |-> c,
                            kind |-> IF fb THEN "fallback" ELSE "openError",
                            called |-> FALSE]
              /\ UNCHANGED <<pending, cbState, failureCount, successCount,
                             lastFailureTime>>]_vars

C18_Witness ==
    /\ cbState = "OPEN"
    /\ cbResp.kind = "openError"
    /\ now = lastFailureTime + resetTimeout
    /\ \A c \in Callers : ~pending[c].active

\* C19: in CLOSED failureCount is the number of executions that failed since
\* the last one that succeeded and is below failureThreshold; the circuit
\* leaves CLOSED for OPEN exactly with the failure that makes that number
\* failureThreshold, and a success in CLOSED sets failureCount to 0.
C19_OpensAtThreshold ==
    /\ [](cbState = "CLOSED" => failureCount = streak /\ streak < failureThreshold)
    /\ [][(cbState = "CLOSED" /\ cbState' # "CLOSED") =>
              /\ cbState' = "OPEN"
              /\ streak = failureThreshold - 1
              /\ streak' = failureThreshold]_vars
    /\ [][(cbState = "CLOSED" /\ streak' = failureThreshold) => cbState' = "OPEN"]_vars
    /\ [][\A c \in Callers :
              (FnResolve(c) /\ cbState = "CLOSED") =>
                  failureCount' = 0 /\ cbState' = "CLOSED"]_vars

C19_Witness ==
    /\ cbState = "OPEN"
    /\ streak = failureThreshold
    /\ failureCount = failureThreshold
    /\ hoSucc = successThreshold
    /\ cbResp.kind = "fallback"

\* C20: in HALF_OPEN successCount is the number of executions that succeeded
\* since HALF_OPEN was entered and is below successThreshold; the circuit
\* leaves HALF_OPEN for CLOSED exactly with the success that makes that number
\* successThreshold, and failureCount and successCount are then both 0.
C20_ClosesAtThreshold ==
    /\ [](cbState = "HALF_OPEN" => successCount = hoSucc /\ hoSucc < successThreshold)
    /\ [][(cbState = "HALF_OPEN" /\ cbState' = "CLOSED") =>
              /\ hoSucc = successThreshold - 1
              /\ hoSucc' = successThreshold
              /\ failureCount' = 0
              /\ successCount' = 0]_vars
    /\ [][(cbState = "HALF_OPEN" /\ hoSucc' = successThreshold) =>
              cbState' = "CLOSED"]_vars

C20_Witness ==
    /\ cbState = "CLOSED"
    /\ hoSucc = successThreshold
    /\ failureCount = 0
    /\ successCount = 0
    /\ cbResp.kind = "result"
    /\ lastFailureTime # Null

\* ------------------------------------------------- cache service, running
\* what the cache functions and Redis leave alone
nonCacheVars == <<genVars, codecVars, startVars, shortenVars, now, rateVars, cbVars,
                  redirectVars>>

\* the promise of connect() settling again and again
ConnectPendingAlways == TRUE

\* redisClient.connect() is called once, when the module is loaded
ConnectPending == ~connectSettled

\* redisClient.connect().then(...)
ConnectResolved ==
    /\ ConnectPending
    /\ connectSettled' = TRUE
    /\ isConnected' = TRUE
    /\ UNCHANGED <<cache, cacheRes>>
    /\ UNCHANGED nonCacheVars

\* redisClient.connect().catch(...)
ConnectRejected ==
    /\ ConnectPending
    /\ connectSettled' = TRUE
    /\ isConnected' = FALSE
    /\ UNCHANGED <<cache, cacheRes>>
    /\ UNCHANGED nonCacheVars

\* the TTL of a key runs out
ExpireKey(code) ==
    /\ cache[code].present
    /\ cache' = [cache EXCEPT ![code] = NoEntry]
    /\ UNCHANGED <<isConnected, connectSettled, cacheRes>>
    /\ UNCHANGED nonCacheVars

CacheGet(code, r) ==
    /\ getUrlFromCache(code, r)
    /\ UNCHANGED nonCacheVars

CacheSet(code, r) ==
    /\ setUrlInCache(code, Row(code).url, Row(code).id, r)
    /\ UNCHANGED nonCacheVars

CacheInvalidate(code, r) ==
    /\ invalidateCache(code, r)
    /\ UNCHANGED nonCacheVars

CacheInit ==
    /\ GenIdle
    /\ CodecIdle
    /\ StartIdle
    /\ ShortenIdle
    /\ MiddlewareIdle

CacheNext ==
    \/ ConnectResolved
    \/ ConnectRejected
    \/ \E code \in ShortCodes, r \in RedisReplies : CacheGet(code, r)
    \/ \E code \in ShortCodes, r \in RedisReplies : CacheSet(code, r)
    \/ \E code \in ShortCodes, r \in RedisReplies : CacheInvalidate(code, r)
    \/ \E code \in ShortCodes : ExpireKey(code)

CacheSpec == CacheInit /\ [][CacheNext]_vars

\* C21: the cache functions end with a value, never with an exception: null
\* or the cached data for a read, nothing for a write; with the flag not
\* connected they end without a Redis call and change nothing; an error of a
\* Redis call ends a read with null and a write without effect on the cache.
C21_NeverThrows ==
    /\ [](cacheRes.fn # "none" =>
            /\ cacheRes.result \in (IF cacheRes.fn = "get" THEN {"hit", "null"} ELSE {"void"})
            /\ cacheRes.error # "none" => cacheRes.result \in {"null", "void"})
    /\ [][\A code \in ShortCodes, r \in RedisReplies :
            /\ (~isConnected /\ (CacheGet(code, r) \/ CacheSet(code, r)
                                    \/ CacheInvalidate(code, r))) =>
                   /\ ~cacheRes'.called
                   /\ cacheRes'.result \in {"null", "void"}
                   /\ UNCHANGED <<cache, isConnected>>
            /\ (r # "ok" /\ (CacheGet(code, r) \/ CacheSet(code, r)
                                \/ CacheInvalidate(code, r))) =>
                   UNCHANGED cache]_vars

C21_Witness ==
    /\ cacheRes.fn = "get"
    /\ cacheRes.called
    /\ cacheRes.error = "OTHER"
    /\ cacheRes.result = "null"
    /\ cache[cacheRes.code].present

\* C22: once a Redis call of a cache function has thrown, the connection is
\* marked disconnected, so that the reads that follow return null without a
\* Redis call.
C22_ErrorMarksDisconnected ==
    /\ []((cacheRes.fn \in {"get", "set"} /\ cacheRes.error # "none") => ~isConnected)
    /\ [][\A code \in ShortCodes, r \in RedisReplies :
            (cacheRes.fn \in {"get", "set"} /\ cacheRes.error # "none"
                /\ CacheGet(code, r)) =>
                cacheRes'.result = "null" /\ ~cacheRes'.called]_vars

\* ------------------------------------------------------- GET /:shortCode
\* The handler of one request, cut at its awaits.  rd[c].pc is the place the
\* request of caller c has reached; `clicks' is urls.click_count.
MaxClicks == 1

\* the clients whose requests are followed
Visitors == {"c1"}

\* the data taken for a miss whatever the cache returned
CacheMissAlways(cachedData) == TRUE

\* if (!cachedData)
CacheMiss(cachedData) == cachedData = "null"

\* an error of the analytics block leaving the handler
AnalyticsErrorPropagates == FALSE

\* try { ... } catch (error) { console.warn / console.error } around the analytics
AnalyticsErrorCaught == TRUE

\* res.status(...).json(...), res.redirect(...), or the error handed to asyncHandler
Respond(c, status, location) ==
    rd' = [rd EXCEPT ![c].pc = "done", ![c].status = status, ![c].location = location]

\* res.redirect(302, original_url)
Redirect302(c) == Respond(c, 302, rd[c].url)

\* what the handler leaves alone
nonRedirectVars == <<genVars, codecVars, startVars, shortenVars, now, rateVars>>

\* const cachedData = await getUrlFromCache(shortCode), and the branch on it
RedirectStart(c, code, r) ==
    /\ rd[c].pc \in {"idle", "done"}
    /\ \A k \in Stored : clicks[k] < MaxClicks
    /\ getUrlFromCache(code, r)
    /\ rd' = [rd EXCEPT ![c] =
                IF CacheMiss(cacheRes'.result)
                THEN [NoRd EXCEPT !.pc = "connect", !.code = code]
                ELSE [NoRd EXCEPT !.pc = "analytics", !.code = code, !.hit = TRUE,
                                  !.resolved = TRUE, !.url = cache[code].url,
                                  !.id = cache[code].id]]
    /\ UNCHANGED <<clicks, cbVars>>
    /\ UNCHANGED nonRedirectVars

\* dbCircuitBreaker.execute(() => pool.connect(), () => { throw new DatabaseError })
RedirectConnect(c) ==
    /\ rd[c].pc = "connect"
    /\ executeCall(c, TRUE)
    /\ IF cbResp'.kind = "fallback"
       THEN Respond(c, 503, <<>>)
       ELSE rd' = [rd EXCEPT ![c].pc = "awaitConnect"]
    /\ UNCHANGED <<clicks, cacheVars>>
    /\ UNCHANGED nonRedirectVars

\* pool.connect() resolved
RedirectConnected(c) ==
    /\ rd[c].pc = "awaitConnect"
    /\ FnResolveCall(c)
    /\ rd' = [rd EXCEPT ![c].pc = "select"]
    /\ UNCHANGED <<clicks, cacheVars>>
    /\ UNCHANGED nonRedirectVars

\* pool.connect() rejected: the fallback throws DatabaseError, or the error is rethrown
RedirectConnectFailed(c) ==
    /\ rd[c].pc = "awaitConnect"
    /\ FnRejectCall(c)
    /\ Respond(c, IF cbResp'.kind = "fallback" THEN 503 ELSE 500, <<>>)
    /\ UNCHANGED <<clicks, cacheVars>>
    /\ UNCHANGED nonRedirectVars

\* SELECT original_url, id FROM urls WHERE short_code = $1
RedirectSelect(c, q) ==
    /\ rd[c].pc = "select"
    /\ IF q = "error"
       THEN Respond(c, 500, <<>>)
       ELSE IF rd[c].code \in Stored
            THEN rd' = [rd EXCEPT ![c].pc = "setcache", ![c].resolved = TRUE,
                                  ![c].url = Row(rd[c].code).url,
                                  ![c].id = Row(rd[c].code).id,
                                  ![c].selects = rd[c].selects + 1]
            ELSE rd' = [rd EXCEPT ![c].pc = "done", ![c].status = 404,
                                  ![c].selects = rd[c].selects + 1]
    /\ UNCHANGED <<clicks, cacheVars, cbVars>>
    /\ UNCHANGED nonRedirectVars

\* await setUrlInCache(shortCode, original_url, id)
RedirectSetCache(c, r) ==
    /\ rd[c].pc = "setcache"
    /\ setUrlInCache(rd[c].code, rd[c].url, rd[c].id, r)
    /\ rd' = [rd EXCEPT ![c].pc = "analytics"]
    /\ UNCHANGED <<clicks, cbVars>>
    /\ UNCHANGED nonRedirectVars

\* client = await dbCircuitBreaker.execute(() => pool.connect(), () => null)
RedirectAnalytics(c) ==
    /\ rd[c].pc = "analytics"
    /\ executeCall(c, TRUE)
    /\ IF cbResp'.kind = "fallback"
       THEN Redirect302(c)
       ELSE rd' = [rd EXCEPT ![c].pc = "awaitAnalytics"]
    /\ UNCHANGED <<clicks, cacheVars>>
    /\ UNCHANGED nonRedirectVars

\* pool.connect() of the analytics resolved
RedirectAnalyticsConnected(c) ==
    /\ rd[c].pc = "awaitAnalytics"
    /\ FnResolveCall(c)
    /\ rd' = [rd EXCEPT ![c].pc = "update"]
    /\ UNCHANGED <<clicks, cacheVars>>
    /\ UNCHANGED nonRedirectVars

\* pool.connect() of the analytics rejected: fallback null, or the error caught
RedirectAnalyticsFailed(c) ==
    /\ rd[c].pc = "awaitAnalytics"
    /\ FnRejectCall(c)
    /\ IF cbResp'.kind = "fallback" \/ AnalyticsErrorCaught
       THEN Redirect302(c)
       ELSE Respond(c, 500, <<>>)
    /\ UNCHANGED <<clicks, cacheVars>>
    /\ UNCHANGED nonRedirectVars

\* UPDATE urls SET click_count = click_count + 1 WHERE id = $1
RedirectUpdate(c, q) ==
    /\ rd[c].pc = "update"
    /\ IF q = "error"
       THEN /\ IF AnalyticsErrorCaught THEN Redirect302(c) ELSE Respond(c, 500, <<>>)
            /\ UNCHANGED clicks
       ELSE /\ clicks' = [k \in DOMAIN clicks |->
                            IF Row(k).id = rd[c].id /\ k = rd[c].code
                            THEN clicks[k] + 1 ELSE clicks[k]]
            /\ Redirect302(c)
    /\ UNCHANGED <<cacheVars, cbVars>>
    /\ UNCHANGED nonRedirectVars

RedirectInit ==
    /\ GenIdle
    /\ CodecIdle
    /\ StartIdle
    /\ ShortenIdle
    /\ MiddlewareIdle

RedirectNext ==
    \/ ConnectResolved
    \/ ConnectRejected
    \/ \E code \in ShortCodes : ExpireKey(code)
    \/ \E c \in Visitors, code \in ShortCodes, r \in RedisReplies : RedirectStart(c, code, r)
    \/ \E c \in Visitors : RedirectConnect(c)
    \/ \E c \in Visitors : RedirectConnected(c)
    \/ \E c \in Visitors : RedirectConnectFailed(c)
    \/ \E c \in Visitors, q \in {"rows", "error"} : RedirectSelect(c, q)
    \/ \E c \in Visitors, r \in RedisReplies : RedirectSetCache(c, r)
    \/ \E c \in Visitors : RedirectAnalytics(c)
    \/ \E c \in Visitors : RedirectAnalyticsConnected(c)
    \/ \E c \in Visitors : RedirectAnalyticsFailed(c)
    \/ \E c \in Visitors, q \in {"ok", "error"} : RedirectUpdate(c, q)
    \/ CbTick

RedirectSpec == RedirectInit /\ [][RedirectNext]_vars

\* C23: when the request that missed the cache has found its short code in
\* the database and stores it with Redis connected and no Redis error, the
\* cache holds that url and id for the short code; a request for a short code
\* the cache holds, with Redis connected and no Redis error, is a hit that
\* takes its url and id from the cache and goes on to the analytics without
\* a SELECT.
C23_ReadThrough ==
    /\ [][\A c \in Visitors :
            (RedirectSetCache(c, "ok") /\ isConnected) =>
                cache'[rd[c].code] = [present |-> TRUE, url |-> Row(rd[c].code).url,
                                      id |-> Row(rd[c].code).id]]_vars
    /\ [][\A c \in Visitors, code \in ShortCodes :
            (RedirectStart(c, code, "ok") /\ isConnected /\ cache[code].present) =>
                /\ rd'[c].hit
                /\ rd'[c].pc = "analytics"
                /\ rd'[c].url = Row(code).url
                /\ rd'[c].id = Row(code).id]_vars
    /\ [](\A c \in Visitors : rd[c].hit => rd[c].selects = 0)

C23_Witness ==
    \E c \in Visitors :
        /\ rd[c].hit
        /\ rd[c].pc = "done"
        /\ rd[c].status = 302
        /\ rd[c].location = Row(rd[c].code).url
        /\ rd[c].selects = 0

\* C24: a request whose original URL is resolved keeps that URL until it
\* ends, and ends with status 302 and that URL as location, whatever the
\* analytics do: circuit breaker OPEN, pool.connect() rejected, UPDATE failed.
C24_AlwaysRedirects ==
    /\ [](\A c \in Visitors :
            /\ rd[c].resolved =>
                 rd[c].pc \in {"setcache", "analytics", "awaitAnalytics", "update", "done"}
            /\ (rd[c].resolved /\ rd[c].pc = "done") =>
                 (rd[c].status = 302 /\ rd[c].location = rd[c].url)
            /\ rd[c].hit => rd[c].resolved)
    /\ [][\A c \in Visitors :
            (rd[c].resolved /\ rd[c].pc # "done") =>
                (rd'[c].resolved /\ rd'[c].url = rd[c].url)]_vars

C24_Witness ==
    \E c \in Visitors :
        /\ rd[c].hit
        /\ rd[c].pc = "done"
        /\ rd[c].status = 302
        /\ cbState = "OPEN"
        /\ cbResp.kind = "fallback"
        /\ \A k \in Stored : clicks[k] = 0

\* ------------------------------------------- circuit breaker, concurrent calls
\* C31: while the state is HALF_OPEN no more than successThreshold fn
\* invocations have started since HALF_OPEN was entered.
C31_HalfOpenLimited ==
    cbState = "HALF_OPEN" => hoCalls <= successThreshold

\* C36: state OPEN implies failureCount >= failureThreshold.
C36_OpenMeansThreshold ==
    cbState = "OPEN" => failureCount >= failureThreshold

\* ------------------------------------------------ cache service, recovery
\* C32: the flag is true only after connect() resolved; once connect() has
\* settled and the flag is false, no step makes it true again, and every
\* getUrlFromCache from then on returns null without a Redis call.
C32_StaysDisconnected ==
    /\ [](isConnected => connectSettled)
    /\ [][(connectSettled /\ ~isConnected) => ~isConnected']_vars
    /\ [][\A code \in ShortCodes, r \in RedisReplies :
            (connectSettled /\ ~isConnected /\ CacheGet(code, r)) =>
                /\ cacheRes'.result = "null"
                /\ ~cacheRes'.called
                /\ ~isConnected']_vars

C32_Witness ==
    /\ connectSettled
    /\ ~isConnected
    /\ cacheRes.fn = "get"
    /\ ~cacheRes.called
    /\ cacheRes.result = "null"
    /\ cache[cacheRes.code].present

\* ------------------------------------------------- generator, clock skew
\* C33: a call that spins in waitNextMillis has thrown nothing; a reading of
\* the clock at or below the timestamp it waits for, also one below it,
\* leaves the call spinning and the generator as it was; the spin ends only
\* with a reading above that timestamp, and the call then returns an id.
C33_WaitIgnoresSkew ==
    /\ [](\A c \in Callers : frame[c].active => outcome.kind = "spin")
    /\ [][\A c \in Callers :
            (frame[c].active /\ waitNextMillis(c)) =>
                IF clock <= frame[c].lastTimestamp
                THEN frame'[c].active /\ UNCHANGED <<outcome, lastTimestamp, sequence, log>>
                ELSE /\ outcome' = [caller |-> c, kind |-> "id",
                                    value |-> ComposeId(clock, machineId, 0),
                                    waited |-> TRUE]
                     /\ lastTimestamp' = clock]_vars
    /\ [][\A c \in Callers :
            (frame[c].active /\ ~frame'[c].active) =>
                (outcome'.kind = "id" /\ lastTimestamp' > frame[c].lastTimestamp)]_vars

C33_Witness ==
    \E c \in Callers :
        /\ frame[c].active
        /\ clock < frame[c].lastTimestamp
        /\ outcome = [caller |-> c, kind |-> "spin", value |-> 0, waited |-> TRUE]

\* C34: the call of generateId() that follows a clock-skew failure and reads
\* a clock at or above lastTimestamp does not fail: it returns an id, or
\* waits for the next millisecond when the sequence of lastTimestamp is used
\* up; an id it returns is above every id returned before the failure.
C34_UsableAfterSkew ==
    [][\A c \in Callers :
          (outcome.kind = "skew" /\ generateId(c) /\ clock >= lastTimestamp) =>
              /\ outcome'.caller = c
              /\ outcome'.kind \in {"id", "spin"}
              /\ outcome'.kind = "spin" => sequence = MAX_SEQUENCE /\ clock = lastTimestamp
              /\ outcome'.kind = "id" =>
                    /\ \A i \in DOMAIN log : log[i].id < outcome'.value
                    /\ log' = Append(log, [timestamp |-> clock, sequence |-> sequence',
                                           id |-> outcome'.value])]_vars

C34_Witness ==
    /\ outcome.kind = "skew"
    /\ clock >= lastTimestamp
    /\ Len(log) >= 2
    /\ sequence < MAX_SEQUENCE
    /\ \A c \in Callers : ~frame[c].active

\* ------------------------------------------------------ codec, canonical form
\* C35: a string that encodeBase62 returns is not empty and starts with "0"
\* only when it is the string "0"; for a string s over the alphabet that is
\* "0", or is not empty and does not start with "0",
\* encodeBase62(decodeBase62(s)) is s.
C35_Canonical ==
    /\ op \in {"encoded", "roundtrip"} =>
          /\ Len(str) >= 1
          /\ str[1] = "0" => str = <<"0">>
    /\ op = "recoded" =>
          /\ Len(res.code) >= 1
          /\ res.code[1] = "0" => res.code = <<"0">>
          /\ (str = <<"0">> \/ (Len(str) >= 1 /\ str[1] # "0")) => res.code = str

C35_Witness ==
    /\ op = "recoded"
    /\ str = <<"Z", "0", "a">>
    /\ res.value = (61 * 62 + 0) * 62 + 10
    /\ res.code = str

====
